---- MODULE Spec2Model ----
(***************************************************************************)
(* Model of arduino-interface (src/index.js): the acknowledgment queue of  *)
(* writeAndWaitForAcknowledgement, its write/drain/ack-timer cycle, the    *)
(* inbound binary message parser, and the connection logic (connect, the   *)
(* polling loop, the serial port events, disconnect, flashArduino, reboot).*)
(* The queue is checked on a connection at rest, whose serial port object  *)
(* exists or not for the whole run (Spec, SpecCeiling); the connection     *)
(* logic is checked on an idle queue (SpecConnection).                     *)
(*                                                                         *)
(* One action is one run-to-completion handler of the Node event loop: an  *)
(* API call made by the host, a serial port callback, a timer callback or  *)
(* an event listener.  Everything a handler calls synchronously (including *)
(* the 'send-error' listener and a write that fails synchronously because  *)
(* no port exists) is part of the same action.                             *)
(***************************************************************************)
EXTENDS Integers, Sequences, FiniteSets, TLC

(* ------------------------------ bounds --------------------------------- *)

\* number of writeAndWaitForAcknowledgement calls the host makes
MaxMsgs == 2

\* the host passes options.attempts = 0 or options.attempts = MaxAttempts
MaxAttempts == 1

\* inbound bytes are drawn from 0..MaxByte
MaxByte == 1

\* number of connect, disconnect, flashArduino and reboot calls the host makes
MaxHostCalls == 3

\* number of SerialPort objects that stay alive after self.serialPort was
\* given a new one
MaxOrphans == 1

(* ------------------------- program constants --------------------------- *)

\* self.maxFails = 100
maxFails == 100

\* self.sequenceNumberMax = 255 (one-byte sequence numbers)
sequenceNumberMax == 255

Priorities == {"high", "low"}

AttemptsChoices == {0, MaxAttempts}

Bytes == 0..MaxByte

\* raw messages handed to _parseBinaryMessage
\* by the SLIP decoder: every single byte, every byte followed by itself (its
\* own XOR checksum), and one two-byte message whose last byte is not the
\* checksum of the first
InboundMessages ==
  {<<b>> : b \in Bytes} \cup {<<b, b>> : b \in Bytes} \cup {<<0, 1>>}

VARIABLES
  binary,          \* self.options.binary
  nmea,            \* self.options.nmea
  acknowledgment,  \* self.options.acknowledgment
  serialPort,      \* self.serialPort !== undefined
  messageQueue,    \* self.messageQueue: records [id, sequenceNumber, priority, attempts]
  sequenceNumber,  \* self.sequenceNumber
  writing,         \* self.writing
  fails,           \* self.fails
  timeout,         \* self.timeout: id captured by the live timer it refers to, 0 if none
  timers,          \* live ack timers: id |-> number of live timers whose closure captured id
  pendingWrites,   \* serialPort.write/drain calls whose callback has not run yet (FIFO of ids)
  calls,           \* one record per writeAndWaitForAcknowledgement call: the options and
                   \* callback its closures captured, and what happened to it so far
  acked,           \* history: ids completed by an acknowledgment, in completion order
  writeFailed,     \* history: some write of a queued message reported an error
  uncaught,        \* a TypeError escaped a handler (the process is gone)
  last,            \* the handler that ran last and what it emitted
  isConnected,     \* self.isConnected
  isRebooting,     \* self.isRebooting
  isFlashing,      \* self.isFlashing
  isScanning,      \* self.isScanning
  portState,       \* the SerialPort object self.serialPort refers to: "none",
                   \* "opening", "open", "closing" or "closed" (never opened)
  orphans,         \* live SerialPort objects self.serialPort no longer refers to
  connectInterval, \* number of live setInterval polling loops
  scannerRunning,  \* arduinoScanner was started and not stopped
  reboots,         \* reset sequences in progress: records [stage, cb]
  lines,           \* the rts/dtr control lines as last set
  flashes,         \* accepted flashArduino calls in progress: their stages
  disconnectCb,    \* the cb of disconnect was handed to serialPort.close
  hostCalls        \* number of connection calls the host has made

\* the fields of the connection logic
connVars == <<isConnected, isRebooting, isFlashing, isScanning, portState,
              orphans, connectInterval, scannerRunning, reboots, lines,
              flashes, disconnectCb, hostCalls>>

\* the fields of the acknowledgment queue
queueVars == <<binary, nmea, acknowledgment, messageQueue, sequenceNumber,
               writing, fails, timeout, timers, pendingWrites, calls, acked,
               writeFailed>>

vars == <<binary, nmea, acknowledgment, serialPort, messageQueue, sequenceNumber,
          writing, fails, timeout, timers, pendingWrites, calls, acked,
          writeFailed, uncaught, last, isConnected, isRebooting, isFlashing,
          isScanning, portState, orphans, connectInterval, scannerRunning,
          reboots, lines, flashes, disconnectCb, hostCalls>>

\* the configuration and the port object do not change while the queue runs
optVars == <<binary, nmea, acknowledgment, serialPort>>

Ids == 1..MaxMsgs

(* ----------------------------- helpers --------------------------------- *)

RECURSIVE XorBits(_, _, _)
\* bitwise exclusive or of two bytes, bit by bit (JavaScript ^ on byte values)
XorBits(a, b, n) ==
  IF n = 0 THEN 0
  ELSE (((a % 2) + (b % 2)) % 2) + (2 * XorBits(a \div 2, b \div 2, n - 1))

Xor(a, b) == XorBits(a, b, 8)

RECURSIVE ChecksumFrom(_, _, _)
ChecksumFrom(message, i, checksum) ==
  IF i > Len(message) THEN checksum
  ELSE ChecksumFrom(message, i + 1, Xor(checksum, message[i]))

\* a checksum that starts from 1 instead of 0
ChecksumFromOne(message) == ChecksumFrom(message, 1, 1)

\* _computeChecksum in binary mode: XOR of all bytes, starting from 0
_computeChecksum(message) == ChecksumFrom(message, 1, 0)

\* one observable output of a handler: an emitted signal or an invoked
\* completion callback
Ev(t, id, a) == [t |-> t, id |-> id, a |-> a]

\* a handler emits a signal or invokes the completion callback of call id;
\* an invoked callback is counted in the record of its call
Emit(st, t, id, a) ==
  IF t = "cb"
  THEN [st EXCEPT !.ev = Append(@, Ev(t, id, a)), !.calls[id].completions = @ + 1]
  ELSE [st EXCEPT !.ev = Append(@, Ev(t, id, a))]

\* clearTimeout(self.timeout): cancels the timer the handle refers to, if live
ClearTimeout(st) ==
  IF st.timeout = 0 THEN st
  ELSE [st EXCEPT !.timers[st.timeout] = @ - 1, !.timeout = 0]

\* Array.prototype.shift: removes the first element, no-op on an empty array
Shift(q) == IF q = <<>> THEN q ELSE Tail(q)

\* Array.prototype.unshift in place of push: the new message goes first
PushFront(q, m) == <<m>> \o q

\* Array.prototype.push: appends at the end
Push(q, m) == Append(q, m)

\* the queue-local part of the program state a handler works on, with the
\* outputs (ev) the handler has produced so far
QueueState ==
  [q |-> messageQueue, writing |-> writing, fails |-> fails,
   timeout |-> timeout, timers |-> timers, pw |-> pendingWrites,
   calls |-> calls, uncaught |-> uncaught, port |-> serialPort,
   acked |-> acked, writeFailed |-> writeFailed, ev |-> <<>>]

\* a failure count that leaves self.writing set
CountFailureStillWriting(st) ==
  LET s1 == [st EXCEPT !.fails = @ + 1]
  IN IF s1.fails > maxFails
     THEN [Emit(s1, "error", 0, "wipe") EXCEPT !.fails = 0, !.q = <<>>]
     ELSE s1

\* self.writing = false; self.fails++; the wipe when fails exceeds maxFails
CountFailure(st) ==
  LET s1 == [st EXCEPT !.writing = FALSE, !.fails = @ + 1]
  IN IF s1.fails > maxFails
     THEN [Emit(s1, "error", 0, "wipe") EXCEPT !.fails = 0, !.q = <<>>]
     ELSE s1

RECURSIVE _writeAndWaitForAcknowledgementHelper(_)

\* the callback given to writeAndDrain, called with an error; id is the
\* message whose options and cb the closure captured
WriteFailed(st, id) ==
  LET s1 == ClearTimeout(CountFailure([st EXCEPT !.writeFailed = TRUE]))
  IN IF s1.calls[id].priority = "low"
     THEN LET s2 == Emit(Emit(s1, "error", id, "write-failed-low"), "cb", id, "error")
          IN _writeAndWaitForAcknowledgementHelper([s2 EXCEPT !.q = Shift(@)])
     ELSE IF s1.q = <<>>
          \* self.messageQueue[0].options on an empty queue: a TypeError
          \* leaves the callback, 'send-error' is not emitted
          THEN [s1 EXCEPT !.uncaught = TRUE]
          ELSE _writeAndWaitForAcknowledgementHelper(
                 [s1 EXCEPT !.q[1].attempts = @ - 1])

\* the callback given to writeAndDrain, called without error: start the timer
Drained(st, id) ==
  [st EXCEPT !.timers[id] = @ + 1, !.timeout = id]

\* the setTimeout callback; id is the message the closure captured
TimedOut(st, id) ==
  LET s1 == CountFailure(st)
  IN IF s1.calls[id].priority = "low"
     THEN LET s2 == Emit(Emit(s1, "error", id, "no-ack-low"), "cb", id, "error")
          IN _writeAndWaitForAcknowledgementHelper([s2 EXCEPT !.q = Shift(@)])
     ELSE IF s1.q # <<>>
          THEN _writeAndWaitForAcknowledgementHelper(
                 [s1 EXCEPT !.q[1].attempts = @ - 1])
          ELSE _writeAndWaitForAcknowledgementHelper(s1)

\* writeAndDrain for the head message: a synchronous error when no port
\* object exists (serialPort.isOpen, not called, is always truthy), otherwise
\* serialPort.write is called and its callback is pending
writeAndDrain(st, id) ==
  IF ~st.port
  THEN WriteFailed(st, id)
  ELSE [st EXCEPT !.pw = Append(@, id), !.calls[id].writes = @ + 1]

_writeAndWaitForAcknowledgementHelper(st) ==
  IF st.q = <<>> THEN st
  ELSE IF st.q[1].attempts < 0
       THEN Emit(st, "error", st.q[1].id, "max-attempts")
       ELSE IF st.writing THEN st
            ELSE writeAndDrain([st EXCEPT !.writing = TRUE], st.q[1].id)

\* a mode test that lets every connection through
RefusesNothing(isBinary) == FALSE

\* the test that refuses the call: !self.options.binary
RefusesNonBinary(isBinary) == ~isBinary

\* a discard test that forgets the priority tier: nothing is discarded
DiscardsNothing(q, priority) == FALSE

\* the test that sends a new message to the discard branch
DiscardsLowPriority(q, priority) == Len(q) > 0 /\ priority = "low"

\* the test that takes an inbound message for the acknowledgment of the head
IsAcknowledgment(message, q) ==
  /\ Len(message) = 1
  /\ q # <<>>
  /\ message[1] = q[1].sequenceNumber

\* an acknowledgment branch that forgets self.fails = 0
AcknowledgeKeepingFails(st) ==
  LET msg == st.q[1]
      s1 == [ClearTimeout(st) EXCEPT
               !.q = Shift(@), !.writing = FALSE,
               !.acked = Append(@, msg.id)]
  IN _writeAndWaitForAcknowledgementHelper(Emit(s1, "cb", msg.id, "ok"))

\* the acknowledgment branch of _parseBinaryMessage
Acknowledge(st) ==
  LET msg == st.q[1]
      s1 == [ClearTimeout(st) EXCEPT
               !.q = Shift(@), !.fails = 0, !.writing = FALSE,
               !.acked = Append(@, msg.id)]
  IN _writeAndWaitForAcknowledgementHelper(Emit(s1, "cb", msg.id, "ok"))

\* write the queue-local state a handler produced back to the variables;
\* byte is the one-byte payload of the inbound message handled, -1 otherwise
Commit(st, op, id, byte) ==
  /\ last' = [op |-> op, id |-> id, byte |-> byte, ev |-> st.ev]
  /\ messageQueue' = st.q
  /\ writing' = st.writing
  /\ fails' = st.fails
  /\ timeout' = st.timeout
  /\ timers' = st.timers
  /\ pendingWrites' = st.pw
  /\ calls' = st.calls
  /\ acked' = st.acked
  /\ writeFailed' = st.writeFailed
  /\ uncaught' = st.uncaught

\* the record of one call: its options, the sequence number it was given
\* (-1 if none), the length of the pending queue when it was made, the
\* number of serialPort.write calls made for it and the number of times its
\* cb was invoked
Call(priority, attempts, seq, pending) ==
  [priority |-> priority, attempts |-> attempts, sequenceNumber |-> seq,
   pending |-> pending, writes |-> 0, completions |-> 0]

(* ------------------------------ Init ----------------------------------- *)

\* the counters right after the constructor ran
Constructed ==
  /\ sequenceNumber = 0
  /\ fails = 0

\* the counters after maxFails consecutive calls that each sent one
\* low-priority message on an empty queue and saw its write fail: every such
\* call pushes (sequenceNumber becomes 1), counts one failure, and the
\* message is dequeued
AfterFailedSends ==
  /\ sequenceNumber = 1
  /\ fails = maxFails

\* an idle queue under any configuration, with or without a port object
Idle ==
  /\ binary \in BOOLEAN
  /\ nmea \in BOOLEAN
  /\ acknowledgment \in BOOLEAN
  /\ serialPort \in BOOLEAN
  /\ messageQueue = <<>>
  /\ writing = FALSE
  /\ timeout = 0
  /\ timers = [i \in Ids |-> 0]
  /\ pendingWrites = <<>>
  /\ calls = <<>>
  /\ acked = <<>>
  /\ writeFailed = FALSE
  /\ uncaught = FALSE
  /\ last = [op |-> "init", id |-> 0, byte |-> -1, ev |-> <<>>]

\* the connection logic at rest, around the port object (if any) the queue
\* writes to
AtRest ==
  /\ isConnected = serialPort
  /\ isRebooting = FALSE
  /\ isFlashing = FALSE
  /\ isScanning = FALSE
  /\ portState = (IF serialPort THEN "open" ELSE "none")
  /\ orphans = 0
  /\ connectInterval = 0
  /\ scannerRunning = FALSE
  /\ reboots = <<>>
  /\ lines = FALSE
  /\ flashes = <<>>
  /\ disconnectCb = FALSE
  /\ hostCalls = 0

Init == Idle /\ Constructed /\ AtRest

InitCeiling == Idle /\ AfterFailedSends /\ AtRest

(* ------------------------ acknowledgment queue ------------------------- *)

\* the host calls writeAndWaitForAcknowledgement(message, cb, options)
writeAndWaitForAcknowledgement(priority, attempts) ==
  LET id == Len(calls) + 1
      pending == Len(messageQueue)
      st == QueueState
  IN /\ ~uncaught
     /\ Len(calls) < MaxMsgs
     /\ IF RefusesNonBinary(binary)
        THEN /\ Commit(Emit([st EXCEPT !.calls = Append(@, Call(priority, attempts, -1, pending))],
                            "cb", id, "error"), "enqueue", id, -1)
             /\ UNCHANGED sequenceNumber
        ELSE IF DiscardsLowPriority(messageQueue, priority)
        THEN /\ Commit(Emit(Emit([st EXCEPT !.calls = Append(@, Call(priority, attempts, -1, pending)),
                                            !.q = Shift(@)],
                                 "error", id, "discard"), "cb", id, "ok"),
                       "enqueue", id, -1)
             /\ UNCHANGED sequenceNumber
        ELSE LET s1 == [st EXCEPT
                          !.calls = Append(@, Call(priority, attempts, sequenceNumber, pending)),
                          !.q = Push(@, [id |-> id, sequenceNumber |-> sequenceNumber,
                                         priority |-> priority, attempts |-> attempts])]
             IN /\ sequenceNumber' = Len(s1.q)
                /\ Commit(_writeAndWaitForAcknowledgementHelper(s1), "enqueue", id, -1)
     /\ UNCHANGED <<optVars, connVars>>

\* the callback of serialPort.write / serialPort.drain for the oldest pending
\* write runs, with the outcome the transport reports
WriteCallback(outcome) ==
  LET id == Head(pendingWrites)
      st == [QueueState EXCEPT !.pw = Tail(@)]
  IN /\ ~uncaught
     /\ pendingWrites # <<>>
     /\ CASE outcome = "ok" ->
               Commit(Drained(st, id), "drained", id, -1)
          [] outcome = "write-error" ->
               Commit(WriteFailed(Emit(st, "error", id, "serial-write"), id),
                      "write-failed", id, -1)
          [] outcome = "drain-error" ->
               Commit(WriteFailed(st, id), "write-failed", id, -1)
     /\ UNCHANGED <<optVars, sequenceNumber, connVars>>

\* an acknowledgment timer expires; referenced says whether it is the timer
\* self.timeout refers to
AckTimeout(id, referenced) ==
  LET st == [QueueState EXCEPT
               !.timers[id] = @ - 1,
               !.timeout = IF referenced THEN 0 ELSE @]
  IN /\ ~uncaught
     /\ timers[id] > 0
     /\ referenced => timeout = id
     /\ ~referenced => timers[id] > (IF timeout = id THEN 1 ELSE 0)
     /\ Commit(TimedOut(st, id), "timeout", id, -1)
     /\ UNCHANGED <<optVars, sequenceNumber, connVars>>

\* the SLIP decoder hands a complete inbound message to _parseBinaryMessage
_parseBinaryMessage(raw) ==
  LET st == QueueState
      checksum == raw[Len(raw)]
      message == IF nmea THEN SubSeq(raw, 1, Len(raw) - 1) ELSE raw
      byte == IF Len(message) = 1 THEN message[1] ELSE -1
  IN /\ ~uncaught
     /\ binary
     /\ serialPort
     /\ IF nmea /\ checksum # _computeChecksum(message)
        THEN Commit(Emit(st, "error", 0, "checksum"), "inbound", 0, -1)
        ELSE IF acknowledgment /\ IsAcknowledgment(message, messageQueue)
        THEN Commit(Acknowledge(st), "inbound", messageQueue[1].id, byte)
        ELSE Commit(Emit(st, "data", 0, ""), "inbound", 0, byte)
     /\ UNCHANGED <<optVars, sequenceNumber, connVars>>

Next ==
  \/ \E p \in Priorities, a \in AttemptsChoices : writeAndWaitForAcknowledgement(p, a)
  \/ \E o \in {"ok", "write-error", "drain-error"} : WriteCallback(o)
  \/ \E id \in Ids, r \in BOOLEAN : AckTimeout(id, r)
  \/ \E raw \in InboundMessages : _parseBinaryMessage(raw)

\* a freshly constructed connection
Spec == Init /\ [][Next]_vars

\* a connection whose failure counter stands at the ceiling
SpecCeiling == InitCeiling /\ [][Next]_vars

\* a freshly constructed connection with opts.binary and opts.nmea set
InitChecksum == Init /\ binary /\ nmea

\* a connection in binary mode with checksums
SpecChecksum == InitChecksum /\ [][Next]_vars

(* --------------------------- connection logic -------------------------- *)

\* what a handler of the connection logic leaves in last
Ran(op, ev) == [op |-> op, id |-> 0, byte |-> -1, ev |-> ev]

\* the callback handed to reboot: the host's cb, or the open handler's
\* function, which emits 'connect' whatever it is called with
RebootCb(cb, a) ==
  IF cb = "open" THEN Ev("connect", 0, "") ELSE Ev("cb", 0, a)

\* the SerialPort constructor starts opening the port; 'open' comes later
SerialPortConstructed == "opening"

\* self.serialPort && self.serialPort.isOpen()
IsOpen == serialPort /\ portState = "open"

\* the two tests of reboot that lead to cb(new Error(...))
RebootRefused == isFlashing \/ isRebooting \/ ~serialPort

\* connect(): no-op while isScanning, otherwise a new polling loop
connect ==
  IF isScanning
  THEN UNCHANGED <<isScanning, isConnected, connectInterval>>
  ELSE /\ isScanning' = TRUE
       /\ isConnected' = TRUE
       /\ connectInterval' = connectInterval + 1

\* reboot(cb) as called by the host or by the 'open' handler; pre holds what
\* the caller emitted before the call, open is serialPort.isOpen(), seqs and
\* line are the reset sequences and the control lines as the rest of the
\* caller's step leaves them
reboot(cb, op, pre, open, seqs, line) ==
  IF RebootRefused
  THEN /\ last' = Ran(op, Append(pre, RebootCb(cb, "error")))
       /\ reboots' = seqs
       /\ lines' = line
       /\ UNCHANGED isRebooting
  ELSE /\ isRebooting' = TRUE
       /\ last' = Ran(op, pre)
       /\ IF open
          THEN /\ reboots' = Append(seqs, [stage |-> "assert", cb |-> cb])
               /\ lines' = TRUE
          ELSE /\ reboots' = Append(seqs, [stage |-> "opening", cb |-> cb])
               /\ lines' = line

\* a 'close' handler that never reconnects
CloseHandlerWithoutReconnect(op, pre) ==
  /\ serialPort' = FALSE
  /\ portState' = "none"
  /\ last' = Ran(op, Append(pre, Ev("disconnect", 0, "")))
  /\ UNCHANGED <<isScanning, isConnected, connectInterval>>

\* the 'close' handler of a port object: forget the port, signal, reconnect
CloseHandler(op, pre) ==
  /\ serialPort' = FALSE
  /\ portState' = "none"
  /\ last' = Ran(op, Append(pre, Ev("disconnect", 0, "")))
  /\ IF isConnected THEN connect
     ELSE UNCHANGED <<isScanning, isConnected, connectInterval>>

\* remove element k of a sequence
Remove(seq, k) == SubSeq(seq, 1, k - 1) \o SubSeq(seq, k + 1, Len(seq))

\* the host calls connect(interval)
HostConnect ==
  /\ ~uncaught
  /\ hostCalls < MaxHostCalls
  /\ hostCalls' = hostCalls + 1
  /\ connect
  /\ last' = Ran("connect", <<>>)
  /\ UNCHANGED <<queueVars, uncaught, serialPort, isRebooting, isFlashing,
                 portState, orphans, scannerRunning, reboots, lines, flashes,
                 disconnectCb>>

\* a tick of the polling loop started by connect
IntervalTick ==
  /\ ~uncaught
  /\ connectInterval > 0
  /\ IF ~isFlashing
     THEN /\ scannerRunning' = TRUE
          /\ connectInterval' = connectInterval - 1
          /\ last' = Ran("tick", <<Ev("search", 0, "started")>>)
     ELSE /\ UNCHANGED <<scannerRunning, connectInterval>>
          /\ last' = Ran("tick", <<Ev("search", 0, "postponed")>>)
  /\ UNCHANGED <<queueVars, uncaught, serialPort, isConnected, isRebooting,
                 isFlashing, isScanning, portState, orphans, reboots, lines,
                 flashes, disconnectCb, hostCalls>>

\* the scanner emits 'arduinoFound': stop it and build a SerialPort
arduinoFound ==
  /\ ~uncaught
  /\ scannerRunning
  /\ serialPort => orphans < MaxOrphans
  /\ scannerRunning' = FALSE
  /\ isScanning' = FALSE
  /\ orphans' = orphans + (IF serialPort THEN 1 ELSE 0)
  /\ serialPort' = TRUE
  /\ portState' = SerialPortConstructed
  /\ last' = Ran("found", <<>>)
  /\ UNCHANGED <<queueVars, uncaught, isConnected, isRebooting, isFlashing,
                 connectInterval, reboots, lines, flashes, disconnectCb,
                 hostCalls>>

\* the port has opened: the object emits 'open', then the reset callbacks of
\* the reboot calls that asked it to open run, without error
PortOpened ==
  LET waiting == {k \in 1..Len(reboots) : reboots[k].stage = "opening"}
      seqs == [k \in 1..Len(reboots) |->
                 IF k \in waiting THEN [reboots[k] EXCEPT !.stage = "assert"]
                 ELSE reboots[k]]
      line == lines \/ waiting # {}
  IN
  /\ ~uncaught
  /\ serialPort
  /\ portState = "opening"
  /\ portState' = "open"
  /\ IF ~isFlashing
     THEN reboot("open", "open", <<>>, TRUE, seqs, line)
     ELSE /\ last' = Ran("open", <<>>)
          /\ reboots' = seqs
          /\ lines' = line
          /\ UNCHANGED isRebooting
  /\ UNCHANGED <<queueVars, uncaught, serialPort, isConnected, isFlashing,
                 isScanning, orphans, connectInterval, scannerRunning, flashes,
                 disconnectCb, hostCalls>>

\* the port object emits 'error': while opening the open has failed, on an
\* open port the handler closes it
PortError ==
  /\ ~uncaught
  /\ serialPort
  /\ portState \in {"opening", "open"}
  /\ portState' = (IF portState = "open" THEN "closing" ELSE "closed")
  /\ last' = Ran("port-error", <<Ev("error", 0, "serial-port")>>)
  /\ UNCHANGED <<queueVars, uncaught, serialPort, isConnected, isRebooting,
                 isFlashing, isScanning, orphans, connectInterval,
                 scannerRunning, reboots, lines, flashes, disconnectCb,
                 hostCalls>>

\* the port object self.serialPort refers to has closed (after close() or
\* because the device went away): the callbacks given to close() run and
\* the 'close' handler runs
PortClosed ==
  /\ ~uncaught
  /\ serialPort
  /\ portState \in {"open", "closing"}
  /\ flashes' = [k \in 1..Len(flashes) |->
                   IF flashes[k] = "closing" THEN "flasher" ELSE flashes[k]]
  /\ disconnectCb' = FALSE
  /\ CloseHandler("close", IF disconnectCb THEN <<Ev("cb", 0, "disconnected")>>
                           ELSE <<>>)
  /\ UNCHANGED <<queueVars, uncaught, isRebooting, isFlashing, orphans,
                 scannerRunning, reboots, lines, hostCalls>>

\* a port object self.serialPort no longer refers to has closed (while no
\* close() of the current one is pending): the callbacks given to its
\* close() run, and its 'close' handler runs all the same
OrphanClosed ==
  /\ ~uncaught
  /\ orphans > 0
  /\ portState # "closing"
  /\ orphans' = orphans - 1 + (IF serialPort THEN 1 ELSE 0)
  /\ flashes' = [k \in 1..Len(flashes) |->
                   IF flashes[k] = "closing" THEN "flasher" ELSE flashes[k]]
  /\ disconnectCb' = FALSE
  /\ CloseHandler("orphan-close", IF disconnectCb THEN <<Ev("cb", 0, "disconnected")>>
                                  ELSE <<>>)
  /\ UNCHANGED <<queueVars, uncaught, isRebooting, isFlashing, scannerRunning,
                 reboots, lines, hostCalls>>

\* a disconnect that does not look at isFlashing
DisconnectRefusedNever == FALSE

\* the test of disconnect that leads to cb(new Error(...))
DisconnectRefused == isFlashing

\* the host calls disconnect(cb)
disconnect ==
  /\ ~uncaught
  /\ hostCalls < MaxHostCalls
  /\ hostCalls' = hostCalls + 1
  /\ IF DisconnectRefused
     THEN /\ last' = Ran("disconnect", <<Ev("cb", 0, "error")>>)
          /\ UNCHANGED <<isConnected, isScanning, connectInterval,
                         scannerRunning, portState, disconnectCb>>
     ELSE /\ isConnected' = FALSE
          /\ isScanning' = FALSE
          /\ connectInterval' = IF connectInterval > 0 THEN connectInterval - 1
                                ELSE 0
          /\ scannerRunning' = FALSE
          /\ IF IsOpen
             THEN portState' = "closing" /\ disconnectCb' = TRUE
             ELSE UNCHANGED <<portState, disconnectCb>>
          /\ last' = Ran("disconnect", <<>>)
  /\ UNCHANGED <<queueVars, uncaught, serialPort, isRebooting, isFlashing,
                 orphans, reboots, lines, flashes>>

\* a flashArduino that does not look at isFlashing
FlashRefusedNever == FALSE

\* the test of flashArduino that leads to cb(new Error(...))
FlashRefused == isFlashing

\* the host calls flashArduino(hexLocation, command, timeout, cb)
flashArduino ==
  /\ ~uncaught
  /\ hostCalls < MaxHostCalls
  /\ hostCalls' = hostCalls + 1
  /\ IF FlashRefused
     THEN /\ last' = Ran("flash", <<Ev("cb", 0, "error")>>)
          /\ UNCHANGED <<isFlashing, flashes>>
     ELSE /\ isFlashing' = TRUE
          \* writeAndDrain: without a port object its cb runs at once and
          \* starts the settle timer, otherwise serialPort.write is pending
          /\ flashes' = Append(flashes, IF serialPort THEN "command" ELSE "settle")
          /\ last' = Ran("flash", <<>>)
  /\ UNCHANGED <<queueVars, uncaught, serialPort, isConnected, isRebooting,
                 isScanning, portState, orphans, connectInterval,
                 scannerRunning, reboots, lines, disconnectCb>>

\* the callback of the pre-flash command's write runs, and after a write
\* without error the callback of its drain
FlashCommandCallback(k, outcome) ==
  /\ ~uncaught
  /\ k \in 1..Len(flashes)
  /\ flashes[k] = "command"
  /\ IF outcome # "write-error" /\ ~serialPort
     \* self.serialPort.drain on a port that is gone: a TypeError
     THEN /\ uncaught' = TRUE
          /\ last' = Ran("flash-command", <<>>)
          /\ UNCHANGED flashes
     ELSE /\ flashes' = [flashes EXCEPT ![k] = "settle"]
          /\ last' = Ran("flash-command",
                         IF outcome = "write-error"
                         THEN <<Ev("error", 0, "serial-write")>> ELSE <<>>)
          /\ UNCHANGED uncaught
  /\ UNCHANGED <<queueVars, serialPort, isConnected, isRebooting, isFlashing,
                 isScanning, portState, orphans, connectInterval,
                 scannerRunning, reboots, lines, disconnectCb, hostCalls>>

\* the settle timer of a flash expires: close the port, then flash
FlashSettled(k) ==
  /\ ~uncaught
  /\ k \in 1..Len(flashes)
  /\ flashes[k] = "settle"
  /\ IF IsOpen
     THEN /\ portState' = "closing"
          /\ flashes' = [flashes EXCEPT ![k] = "closing"]
     ELSE /\ UNCHANGED portState
          /\ flashes' = [flashes EXCEPT ![k] = "flasher"]
  /\ last' = Ran("flash-settled", <<>>)
  /\ UNCHANGED <<queueVars, uncaught, serialPort, isConnected, isRebooting,
                 isFlashing, isScanning, orphans, connectInterval,
                 scannerRunning, reboots, lines, disconnectCb, hostCalls>>

\* the callback of avrgirl.flash runs, with or without an error
FlasherReports(k, outcome) ==
  /\ ~uncaught
  /\ k \in 1..Len(flashes)
  /\ flashes[k] = "flasher"
  /\ isFlashing' = FALSE
  /\ flashes' = Remove(flashes, k)
  /\ last' = Ran("flashed", <<Ev("cb", 0, outcome)>>)
  /\ UNCHANGED <<queueVars, uncaught, serialPort, isConnected, isRebooting,
                 isScanning, portState, orphans, connectInterval,
                 scannerRunning, reboots, lines, disconnectCb, hostCalls>>

\* the host calls reboot(cb); on a port object that is not open the call
\* asks it to open
HostReboot ==
  /\ ~uncaught
  /\ hostCalls < MaxHostCalls
  /\ hostCalls' = hostCalls + 1
  /\ reboot("host", "reboot", <<>>, IsOpen, reboots, lines)
  /\ portState' = IF ~RebootRefused /\ portState = "closed" THEN "opening"
                  ELSE portState
  /\ UNCHANGED <<queueVars, uncaught, serialPort, isConnected, isFlashing,
                 isScanning, orphans, connectInterval, scannerRunning, flashes,
                 disconnectCb>>

\* the callback of serialPort.open, asked for by reboot, runs with an error
\* (reset(err)): the reboot is called off, cb is called, and the sequence
\* goes on all the same
RebootOpenFailed(k) ==
  /\ ~uncaught
  /\ k \in 1..Len(reboots)
  /\ reboots[k].stage = "opening"
  /\ isRebooting' = FALSE
  /\ last' = Ran("reboot-open-failed", <<RebootCb(reboots[k].cb, "ok")>>)
  /\ IF ~serialPort
     \* self.serialPort.set on a port that is gone: a TypeError
     THEN /\ uncaught' = TRUE
          /\ UNCHANGED <<reboots, lines>>
     ELSE /\ reboots' = [reboots EXCEPT ![k].stage = "assert"]
          /\ lines' = TRUE
          /\ UNCHANGED uncaught
  /\ UNCHANGED <<queueVars, serialPort, isConnected, isFlashing, isScanning,
                 portState, orphans, connectInterval, scannerRunning, flashes,
                 disconnectCb, hostCalls>>

\* the 250 ms timer of a reset sequence expires (clear): release the lines
RebootClear(k) ==
  /\ ~uncaught
  /\ k \in 1..Len(reboots)
  /\ reboots[k].stage = "assert"
  /\ IF ~serialPort
     THEN /\ uncaught' = TRUE
          /\ UNCHANGED <<reboots, lines>>
     ELSE /\ reboots' = [reboots EXCEPT ![k].stage = "release"]
          /\ lines' = FALSE
          /\ UNCHANGED uncaught
  /\ last' = Ran("reboot-clear", <<>>)
  /\ UNCHANGED <<queueVars, serialPort, isConnected, isRebooting, isFlashing,
                 isScanning, portState, orphans, connectInterval,
                 scannerRunning, flashes, disconnectCb, hostCalls>>

\* the 50 ms timer of a reset sequence expires (done)
RebootDone(k) ==
  /\ ~uncaught
  /\ k \in 1..Len(reboots)
  /\ reboots[k].stage = "release"
  /\ isRebooting' = FALSE
  /\ reboots' = Remove(reboots, k)
  /\ last' = Ran("reboot-done", <<RebootCb(reboots[k].cb, "ok")>>)
  /\ UNCHANGED <<queueVars, uncaught, serialPort, isConnected, isFlashing,
                 isScanning, portState, orphans, connectInterval,
                 scannerRunning, lines, flashes, disconnectCb, hostCalls>>

\* the connection right after the constructor, on an idle queue
InitConnection ==
  /\ Idle /\ Constructed
  /\ binary /\ ~nmea /\ acknowledgment
  /\ ~serialPort
  /\ AtRest

Slots == 1..MaxHostCalls

NextConnection ==
  \/ HostConnect
  \/ IntervalTick
  \/ arduinoFound
  \/ PortOpened
  \/ PortError
  \/ PortClosed
  \/ OrphanClosed
  \/ disconnect
  \/ flashArduino
  \/ \E k \in Slots, o \in {"ok", "write-error", "drain-error"} : FlashCommandCallback(k, o)
  \/ \E k \in Slots : FlashSettled(k)
  \/ \E k \in Slots, o \in {"ok", "error"} : FlasherReports(k, o)
  \/ HostReboot
  \/ \E k \in Slots : RebootOpenFailed(k)
  \/ \E k \in Slots : RebootClear(k)
  \/ \E k \in Slots : RebootDone(k)

\* the connection logic from the constructor on, the queue idle
SpecConnection == InitConnection /\ [][NextConnection]_vars

\* a close() that was called and whose callback has not run yet
ClosePending ==
  disconnectCb \/ \E k \in 1..Len(flashes) : flashes[k] = "closing"

\* the same, with every timer expiring and every callback of the serial port
\* and of the flasher arriving
SpecConnectionFair ==
  /\ SpecConnection
  /\ WF_vars(IntervalTick)
  /\ WF_vars(\E k \in Slots, o \in {"ok", "write-error", "drain-error"} :
               FlashCommandCallback(k, o))
  /\ WF_vars(\E k \in Slots : FlashSettled(k))
  /\ WF_vars(\E k \in Slots, o \in {"ok", "error"} : FlasherReports(k, o))
  /\ WF_vars(portState = "closing" /\ PortClosed)
  /\ WF_vars(ClosePending /\ OrphanClosed)

(* ------------------------------ claims --------------------------------- *)

RECURSIVE SumTimers(_)
SumTimers(ids) ==
  IF ids = {} THEN 0
  ELSE LET i == CHOOSE x \in ids : TRUE IN timers[i] + SumTimers(ids \ {i})

\* number of live acknowledgment timers
LiveTimers == SumTimers(Ids)

\* ids of the messages in the pending queue
Pending == {messageQueue[k].id : k \in 1..Len(messageQueue)}

Range(f) == {f[k] : k \in 1..Len(f)}

\* C1: at most one write+drain+await-ack cycle is outstanding at any time:
\* never more than one write in progress, never more than one live
\* acknowledgment timer, and never a write in progress beside a live timer.
C1_SingleCycleOutstanding ==
  /\ Len(pendingWrites) <= 1
  /\ LiveTimers <= 1
  /\ Len(pendingWrites) + LiveTimers <= 1

\* C2: messages completed by an acknowledgment complete in the order of their
\* calls (ids are given in call order), and no message is completed by an
\* acknowledgment while an earlier-enqueued one is still pending.
C2_AckInEnqueueOrder ==
  /\ \A i, j \in 1..Len(acked) : i < j => acked[i] < acked[j]
  /\ \A i \in 1..Len(acked) : \A m \in Pending : acked[i] < m

\* two messages were enqueued together and acknowledged one after the other
C2_Witness ==
  /\ Len(acked) >= 2
  /\ calls[acked[2]].pending > 0

\* the calls that were given a sequence number, in call order
Accepted == SelectSeq(calls, LAMBDA c : c.sequenceNumber # -1)

\* C3: every accepted message is given the sequence number of the previously
\* accepted one plus 1, modulo 256.
C3_SequenceNumbersIncrement ==
  \A i \in 1..(Len(Accepted) - 1) :
    Accepted[i + 1].sequenceNumber =
      (Accepted[i].sequenceNumber + 1) % (sequenceNumberMax + 1)

\* the step is a call with priority low made while the queue is non-empty,
\* in binary mode
LowPriorityCallOnBusyQueue ==
  /\ Len(calls') = Len(calls) + 1
  /\ binary
  /\ messageQueue # <<>>
  /\ calls'[Len(calls')].priority = "low"

C4_Step ==
  LowPriorityCallOnBusyQueue =>
    LET id == Len(calls')
    IN /\ last'.ev = <<Ev("error", id, "discard"), Ev("cb", id, "ok")>>
       /\ pendingWrites' = pendingWrites
       /\ calls'[id].writes = 0

C4_Never ==
  \A id \in 1..Len(calls) :
    (binary /\ calls[id].priority = "low" /\ calls[id].pending > 0) =>
      /\ calls[id].writes = 0
      /\ id \notin Range(pendingWrites)
      /\ id \notin Pending

\* C4: a call with priority low made while the queue is non-empty invokes
\* its callback with no error and emits the discard error in the same step,
\* and no transport write is made for that message, then or ever after.
C4_LowPriorityDiscarded == [][C4_Step]_vars /\ []C4_Never

\* a low-priority call was made on a busy queue, and a write has drained and
\* its timer has expired since
C4_Witness ==
  /\ \E id \in 1..Len(calls) :
       binary /\ calls[id].priority = "low" /\ calls[id].pending > 0
  /\ last.op = "timeout"

\* C5: discarding a low-priority message on enqueue leaves the pending queue
\* (members, order, head) and the sequence counter unchanged.
C5_DiscardLeavesQueueUnchanged ==
  [][LowPriorityCallOnBusyQueue =>
       (messageQueue' = messageQueue /\ sequenceNumber' = sequenceNumber)]_vars

\* nothing is left that could still write message id: it was never
\* acknowledged, none of its writes or timers is outstanding, and it has left
\* the queue or sits at its head with its attempts used up
Abandoned(id) ==
  /\ id \notin Range(acked)
  /\ id \notin Range(pendingWrites)
  /\ timers[id] = 0
  /\ \/ id \notin Pending
     \/ messageQueue[1].id = id /\ messageQueue[1].attempts < 0

\* C6: a high-priority message accepted with attempts = N is never written
\* more than N+1 times, and when it is never acknowledged while every write
\* drains and every timer expires, it has been written exactly N+1 times once
\* it is abandoned.
C6_ExactlyNPlusOneWrites ==
  \A id \in 1..Len(calls) :
    (calls[id].priority = "high" /\ calls[id].sequenceNumber # -1) =>
      /\ calls[id].writes <= calls[id].attempts + 1
      /\ (serialPort /\ ~writeFailed /\ Abandoned(id)) =>
           calls[id].writes = calls[id].attempts + 1

\* no write callback and no timer is outstanding: only a new call of the host
\* or an inbound message can make the queue move again
Quiescent == pendingWrites = <<>> /\ LiveTimers = 0

\* a high-priority message leaves the queue only in the step that
\* acknowledges it or with its attempts used up
C7_OnlyWhen ==
  \A k \in 1..Len(messageQueue) :
    (messageQueue[k].priority = "high" /\ messageQueue[k].id \notin Pending') =>
      \/ messageQueue[k].id \in Range(acked') \ Range(acked)
      \/ messageQueue[k].attempts < 0

\* once the queue has come to rest, no message with its attempts used up is
\* still in it
C7_When ==
  Quiescent => \A k \in 1..Len(messageQueue) : messageQueue[k].attempts >= 0

\* C7: a message is dequeued when, and only when, it was acknowledged or has
\* used up its attempts; a message that used up its attempts does not stay
\* in the queue (stated for high-priority messages, the retried ones).
C7_DequeuedWhenAckedOrExhausted == [][C7_OnlyWhen]_vars /\ []C7_When

\* the step handles a checksum-valid inbound one-byte message that equals the
\* sequence number of the head of the queue, with acknowledgment mode on
AcknowledgmentArrives ==
  /\ last'.op = "inbound"
  /\ acknowledgment
  /\ messageQueue # <<>>
  /\ last'.byte = messageQueue[1].sequenceNumber

C8_Step ==
  AcknowledgmentArrives =>
    LET head == messageQueue[1]
    IN /\ timeout' = 0
       /\ timeout # 0 => timers'[timeout] = timers[timeout] - 1
       /\ messageQueue' = Tail(messageQueue)
       /\ fails' = 0
       /\ last'.ev = <<Ev("cb", head.id, "ok")>>
       /\ acked' = Append(acked, head.id)
       /\ IF Len(messageQueue) = 1
          THEN /\ messageQueue' = <<>>
               /\ writing' = FALSE
               /\ pendingWrites' = pendingWrites
          ELSE /\ writing' = TRUE
               /\ pendingWrites' = Append(pendingWrites, messageQueue[2].id)
               /\ calls'[messageQueue[2].id].writes =
                    calls[messageQueue[2].id].writes + 1

\* C8: an inbound checksum-valid one-byte message equal to the head's
\* sequence number (acknowledgment mode on), in one step: clears the timer
\* self.timeout refers to, removes exactly the head, sets the failure counter
\* to 0, invokes the head's callback with no error, and writes the next
\* pending message at once (in-flight again), or leaves the queue empty and
\* nothing in flight when the head was the only message.
C8_AcknowledgmentCompletesHead == [][C8_Step]_vars

\* an acknowledgment has just completed a message that had been written at
\* least twice, and the message that was pending behind it is being written
C8_Witness ==
  /\ last.op = "inbound"
  /\ last.id # 0
  /\ acked # <<>>
  /\ messageQueue # <<>>
  /\ Range(pendingWrites) = {messageQueue[1].id}
  /\ writing
  /\ calls[last.id].writes >= 2

\* C9: the acknowledgment timeout of a message that has been acknowledged
\* never fires (so it counts no failure, decrements no attempts and triggers
\* no retry), also when the acknowledgment came before the drain callback.
C9_NoTimeoutAfterAcknowledgment ==
  [][last'.op = "timeout" => last'.id \notin Range(acked)]_vars

\* the step raised the failure counter above the ceiling
WipeStep == Ev("error", 0, "wipe") \in Range(last'.ev)

\* C10: the step that raises the failure counter above the ceiling empties
\* the queue, resets the counter to 0, emits exactly one error signal,
\* invokes no callback and completes (on the write-error and the timeout
\* path, for a high- and a low-priority head).
C10_WipeAbandonsSilently ==
  [][WipeStep =>
       /\ messageQueue' = <<>>
       /\ fails' = 0
       /\ Cardinality({k \in 1..Len(last'.ev) : last'.ev[k].t = "error"}) = 1
       /\ \A k \in 1..Len(last'.ev) : last'.ev[k].t # "cb"
       /\ ~uncaught']_vars

\* C11: a call on a connection that is not in binary mode invokes its
\* callback with an error in the same step and changes nothing: the queue,
\* the sequence counter, the in-flight flag, the failure counter and the
\* timers are as before and no write is started.
C11_NonBinaryCallRefused ==
  [][(~binary /\ Len(calls') = Len(calls) + 1) =>
       /\ last'.ev = <<Ev("cb", Len(calls'), "error")>>
       /\ calls'[Len(calls')].writes = 0
       /\ UNCHANGED <<messageQueue, sequenceNumber, writing, fails, timeout,
                      timers, pendingWrites>>]_vars

\* two calls were made on a connection that is not in binary mode
C11_Witness ==
  /\ ~binary
  /\ Len(calls) = 2
  /\ last.op = "enqueue"

RECURSIVE XorOfBytes(_)
\* the XOR of the bytes of a message
XorOfBytes(bytes) ==
  IF bytes = <<>> THEN 0 ELSE Xor(Head(bytes), XorOfBytes(Tail(bytes)))

\* the trailing byte of raw is not the XOR of the bytes before it
ChecksumMismatch(raw) ==
  raw[Len(raw)] # XorOfBytes(SubSeq(raw, 1, Len(raw) - 1))

\* the inbound messages with a wrong checksum
MismatchedMessages == {raw \in InboundMessages : ChecksumMismatch(raw)}

\* C12: with checksum mode on (binary mode), the step that handles an inbound
\* message whose trailing byte is not the XOR of the preceding bytes emits
\* one error signal and nothing else (no data, no callback), and leaves the
\* queue, the timers, the in-flight flag and the failure counter unchanged.
C12_ChecksumMismatchDropped ==
  [][\A raw \in MismatchedMessages :
       (nmea /\ last'.op = "inbound" /\ _parseBinaryMessage(raw)) =>
         /\ last'.ev = <<Ev("error", 0, "checksum")>>
         /\ UNCHANGED <<messageQueue, writing, fails, timeout, timers,
                        pendingWrites, acked, calls>>]_vars

\* a message with a wrong checksum was just dropped while the head of the
\* queue, with sequence number 0, was waiting for its acknowledgment
C12_Witness ==
  /\ nmea /\ acknowledgment
  /\ last.ev = <<Ev("error", 0, "checksum")>>
  /\ messageQueue # <<>>
  /\ messageQueue[1].sequenceNumber = 0
  /\ timeout = messageQueue[1].id

\* the step is a write error or a timer expiry that belongs to the head of
\* the queue, a high-priority message, with the failure counter below the
\* ceiling
HighPriorityHeadFails ==
  /\ last'.op \in {"write-failed", "timeout"}
  /\ messageQueue # <<>>
  /\ last'.id = messageQueue[1].id
  /\ messageQueue[1].priority = "high"
  /\ fails < maxFails

\* C20: on a write error or an acknowledgment timeout of a high-priority
\* head below the failure ceiling, the queue keeps its members and their
\* order, the head's attempts go down by exactly 1, every other message keeps
\* its attempts, and the only write the step starts is the rewrite of that
\* same head (started at once while attempts remain).
C20_RetryKeepsHead ==
  [][HighPriorityHeadFails =>
       LET head == messageQueue[1]
           rest == pendingWrites' = Append(
                     IF last'.op = "timeout" THEN pendingWrites
                     ELSE Tail(pendingWrites), head.id)
       IN /\ Len(messageQueue') = Len(messageQueue)
          /\ messageQueue'[1] = [head EXCEPT !.attempts = @ - 1]
          /\ \A k \in 2..Len(messageQueue) : messageQueue'[k] = messageQueue[k]
          /\ IF head.attempts >= 1
             THEN rest /\ writing'
             ELSE /\ pendingWrites' = (IF last'.op = "timeout" THEN pendingWrites
                                       ELSE Tail(pendingWrites))
                  /\ ~writing']_vars

\* the head has just failed and is being written again while another message
\* is pending behind it
C20_Witness ==
  /\ last.op \in {"write-failed", "timeout"}
  /\ Len(messageQueue) = 2
  /\ messageQueue[1].id = last.id
  /\ messageQueue[1].attempts = MaxAttempts - 1
  /\ Range(pendingWrites) = {last.id}

\* C13: a disconnect call made while a flash is in progress invokes its
\* callback with an error and changes nothing: the port is not closed,
\* discovery and the polling loop are not stopped, isConnected and
\* isScanning keep their values.
C13_DisconnectRefusedWhileFlashing ==
  [][(last'.op = "disconnect" /\ isFlashing) =>
       /\ last'.ev = <<Ev("cb", 0, "error")>>
       /\ UNCHANGED <<serialPort, portState, orphans, isConnected, isScanning,
                      scannerRunning, connectInterval, disconnectCb,
                      isFlashing, isRebooting, flashes, reboots, lines>>]_vars

\* a disconnect call was just refused on an open port with the auto-reconnect
\* intent set, a flash in progress
C13_Witness ==
  /\ last.op = "disconnect"
  /\ isFlashing
  /\ IsOpen
  /\ isConnected

\* what a reboot call does, by the state it is made in
C14_Step ==
  (last'.op = "reboot") =>
    IF isFlashing \/ ~serialPort
    THEN /\ last'.ev = <<Ev("cb", 0, "error")>>
         /\ UNCHANGED <<lines, reboots, isRebooting>>
    ELSE IF reboots # <<>>
         THEN UNCHANGED <<lines, reboots>>
         ELSE Len(reboots') = 1

\* C14: reboot fails with an error and toggles no control line when a flash
\* is in progress or no port object exists; otherwise it starts the reset
\* sequence, unless one is running; two reset sequences never overlap.
C14_RebootGuarded == [][C14_Step]_vars /\ [](Len(reboots) <= 1)

\* C15: isRebooting and isFlashing are never both true.
C15_NeverRebootingAndFlashing == ~(isRebooting /\ isFlashing)

\* a tick of the polling loop during a flash starts nothing and the loop
\* goes on; no SerialPort is built during a flash
C16_Step ==
  isFlashing =>
    /\ last'.op # "found"
    /\ last'.op = "tick" =>
         UNCHANGED <<scannerRunning, connectInterval, serialPort, portState>>

\* C16: while isFlashing is true, discovery is not running and no port is
\* opened; the polling loop of a connect made during a flash waits.
C16_FlashingExcludesScanning ==
  [][C16_Step]_vars /\ [](isFlashing => ~scannerRunning)

\* number of live SerialPort objects
Transports == orphans + (IF serialPort THEN 1 ELSE 0)

\* number of polling loops and discoveries in progress
Searches == connectInterval + (IF scannerRunning THEN 1 ELSE 0)

\* C17: a connect call made while scanning or while a port is open changes
\* nothing (no new polling loop, no discovery), and at most one polling loop
\* or discovery and at most one SerialPort object exist at any time.
C17_ConnectIdempotent ==
  /\ [][(last'.op = "connect" /\ (isScanning \/ IsOpen)) =>
          UNCHANGED <<isScanning, isConnected, connectInterval, scannerRunning,
                      serialPort, portState, orphans>>]_vars
  /\ [](Searches <= 1 /\ Transports <= 1)

\* the step is the 'close' handler of a port object
TransportCloses == last'.op \in {"close", "orphan-close"}

\* every close emits 'disconnect'; with the auto-reconnect intent set the
\* handler re-enters connect (the connection is scanning afterwards), and
\* after a disconnect call that went through it starts nothing
C18_Step ==
  TransportCloses =>
    /\ Ev("disconnect", 0, "") \in Range(last'.ev)
    /\ IF isConnected
       THEN isScanning' /\ isConnected' /\ connectInterval' + (IF scannerRunning THEN 1 ELSE 0) >= 1
       ELSE UNCHANGED <<isScanning, isConnected, connectInterval, scannerRunning>>

\* a port has just closed with the auto-reconnect intent set
ClosedWhileConnected ==
  /\ last.op \in {"close", "orphan-close"}
  /\ isConnected

C19_Call ==
  (last'.op = "flash") =>
    IF isFlashing
    THEN /\ last'.ev = <<Ev("cb", 0, "error")>>
         /\ UNCHANGED <<isFlashing, flashes, serialPort, portState, orphans,
                        isConnected, isScanning, isRebooting, scannerRunning,
                        connectInterval, reboots, lines, disconnectCb>>
    ELSE isFlashing' /\ Len(flashes') = 1

\* isFlashing is cleared by the callback of the flasher, whatever it reports,
\* and by nothing else
C19_Cleared ==
  /\ (isFlashing /\ ~isFlashing') => last'.op = "flashed"
  /\ last'.op = "flashed" => ~isFlashing' /\ flashes' = <<>>

\* C19: a flashArduino call made during a flash gets an error and changes
\* nothing; at most one flash (and one run of the flasher) is in progress at
\* any time; isFlashing is true as long as an accepted flash is in progress
\* and is cleared when, and only when, the flasher reports, with or without
\* an error, also after a failed pre-flash write.
C19_OneFlashAtATime ==
  /\ [][C19_Call /\ C19_Cleared]_vars
  /\ [](Len(flashes) <= 1 /\ (flashes # <<>> => isFlashing))

\* the flasher has just reported an error for a flash during which a second
\* flashArduino call was refused, and isFlashing is cleared
C19_Witness ==
  /\ last.op = "flashed"
  /\ last.ev = <<Ev("cb", 0, "error")>>
  /\ ~isFlashing
  /\ hostCalls >= 2

\* the messages of a queue without the one with the given id, in order
Without(q, id) == SelectSeq(q, LAMBDA m : m.id # id)

\* the step is a call that enqueues a low-priority message while no port
\* object exists (its write fails at once), or the write error or timer
\* expiry of a low-priority message
LowPriorityFails ==
  \/ /\ last'.op = "enqueue"
     /\ ~serialPort
     /\ calls'[last'.id].priority = "low"
     /\ calls'[last'.id].sequenceNumber # -1
  \/ /\ last'.op \in {"write-failed", "timeout"}
     /\ calls[last'.id].priority = "low"

\* the failure invokes the callback of the message with an error, and the
\* queue is left without that message and otherwise as it was
C21_Step ==
  LowPriorityFails =>
    /\ Ev("cb", last'.id, "error") \in Range(last'.ev)
    /\ Pending' = Pending \ {last'.id}
    /\ messageQueue' = Without(messageQueue, last'.id)

\* a low-priority message is written at most once
C21_WrittenOnce ==
  \A id \in 1..Len(calls) : calls[id].priority = "low" => calls[id].writes <= 1

\* C21: a low-priority message is written to the transport at most once, and
\* the failure of its write or the expiry of its timer invokes its own
\* callback with an error and removes that message, and no other, from the
\* queue.
C21_LowPriorityNeverRetried == [][C21_Step]_vars /\ []C21_WrittenOnce

\* the head of the queue has used up its attempts
HeadExhausted == messageQueue # <<>> /\ messageQueue[1].attempts < 0

\* no serialPort.write is started by the step
NoWriteStarted ==
  \A id \in 1..Len(calls') :
    calls'[id].writes = (IF id <= Len(calls) THEN calls[id].writes ELSE 0)

\* C22: once the head of the queue has attempts below 0, every later step
\* (a call, an inbound message, a write callback, a timer) leaves that
\* message at the head of the queue and starts no transport write.
C22_ExhaustedHeadIsTerminal ==
  [][HeadExhausted =>
       /\ messageQueue' # <<>>
       /\ messageQueue'[1].id = messageQueue[1].id
       /\ NoWriteStarted]_vars

\* the callback of a disconnect call is invoked by the step
DisconnectCbInvoked ==
  \E k \in 1..Len(last.ev) :
    last.ev[k].t = "cb" /\ last.ev[k].a \in {"error", "disconnected"}

\* a disconnect call invokes its cb with an error during a flash, and
\* otherwise invokes it at once or hands it on to be invoked later
C23_Step ==
  (last'.op = "disconnect") =>
    IF isFlashing THEN last'.ev = <<Ev("cb", 0, "error")>>
    ELSE DisconnectCbInvoked' \/ disconnectCb'

\* a disconnect call has just returned without invoking its cb
DisconnectReturned == last.op = "disconnect" /\ last.ev = <<>>

\* C23: every disconnect(cb) call invokes cb, with an error during a flash
\* and otherwise at once or later on, when the connection is disconnected,
\* also when no port object exists or the port has not opened yet.
C23_DisconnectCallsBack ==
  /\ [][C23_Step]_vars
  /\ DisconnectReturned ~> (DisconnectCbInvoked \/ uncaught)

\* C24: the completion callback of every message passed to
\* writeAndWaitForAcknowledgement is invoked at most once over the whole run.
C24_CallbackAtMostOnce ==
  \A id \in 1..Len(calls) : calls[id].completions <= 1

\* the messages in the pending queue carry pairwise distinct sequence numbers
DistinctSequenceNumbers ==
  \A i, j \in 1..Len(messageQueue) :
    i # j => messageQueue[i].sequenceNumber # messageQueue[j].sequenceNumber

\* the sequence numbers of the messages completed by an acknowledgment
AcknowledgedNumbers == {calls[acked[k]].sequenceNumber : k \in 1..Len(acked)}

\* C25: any two messages that are in the pending queue together carry
\* distinct sequence numbers, and an inbound byte equal to the sequence
\* number of a message already completed by an acknowledgment completes no
\* other message.
C25_PendingNumbersDistinct ==
  /\ []DistinctSequenceNumbers
  /\ [][(last'.op = "inbound" /\ last'.byte \in AcknowledgedNumbers) =>
          acked' = acked]_vars

\* the step is the write error or the timer expiry of a write, below the
\* failure ceiling
FailureEvent ==
  /\ last'.op \in {"write-failed", "timeout"}
  /\ ~WipeStep

\* every message other than the one the failure belongs to stays in the
\* queue, at its place among the others and with its attempts, and no
\* callback of another message is invoked
C26_Step ==
  FailureEvent =>
    /\ Without(messageQueue', last'.id) = Without(messageQueue, last'.id)
    /\ \A k \in 1..Len(last'.ev) :
         last'.ev[k].t = "cb" => last'.ev[k].id = last'.id

\* C26: a write error or a timer expiry affects only the message whose write
\* started it: it does not decrement the attempts of, invoke the callback of,
\* or dequeue another message that has become the head of the queue.
C26_FailureAffectsOwnMessage == [][C26_Step]_vars

====
